---- MODULE Spec2Model ----
(***************************************************************************)
(* Model of openqml/_optimize.py: the gradient-descent optimizer family    *)
(* (GradientDescentOptimizer, MomentumOptimizer, NesterovMomentumOptimizer,*)
(* AdagradOptimizer, RMSPropOptimizer, AdamOptimizer).                     *)
(*                                                                         *)
(* Numbers are exact rationals <<n, d>> in lowest terms with d > 0; a      *)
(* denominator of 0 marks a non-finite value (the inf/nan numpy produces   *)
(* on a division by zero).  np.sqrt is a rounding operation: Sqrt rounds   *)
(* down to four decimal places.                                            *)
(*                                                                         *)
(* Arrays are numpy arrays: a reference is a record [buf, shape] naming a  *)
(* buffer of the heap and the shape it is viewed with; two references      *)
(* alias when they name the same buffer.  buf = 0 is Python's None.        *)
(***************************************************************************)
EXTENDS Integers, Sequences, FiniteSets, TLC

\* ------------------------------------------------------------ rationals

Abs(n) == IF n < 0 THEN -n ELSE n

RECURSIVE GCD(_, _)
GCD(a, b) == IF b = 0 THEN a ELSE GCD(b, a % b)

NaN == <<0, 0>>

IsFinite(a) == a[2] # 0

\* n/d in lowest terms, d > 0
Norm(n, d) ==
    IF d = 0 THEN NaN
    ELSE LET g == GCD(Abs(n), Abs(d))
             s == IF d < 0 THEN -1 ELSE 1
         IN <<s * (n \div g), s * (d \div g)>>

Rat(n) == <<n, 1>>

Zero == Rat(0)

One == Rat(1)

RNeg(a) == <<-a[1], a[2]>>

RAdd(a, b) ==
    IF a[2] = 0 \/ b[2] = 0 THEN NaN
    ELSE LET g == GCD(a[2], b[2])
         IN Norm(a[1] * (b[2] \div g) + b[1] * (a[2] \div g), (a[2] \div g) * b[2])

RSub(a, b) == RAdd(a, RNeg(b))

RMul(a, b) ==
    IF a[2] = 0 \/ b[2] = 0 THEN NaN
    ELSE LET g1 == GCD(Abs(a[1]), b[2])
             g2 == GCD(Abs(b[1]), a[2])
         IN IF a[1] = 0 \/ b[1] = 0 THEN Zero
            ELSE Norm((a[1] \div g1) * (b[1] \div g2), (a[2] \div g2) * (b[2] \div g1))

\* a / b; a zero divisor gives a non-finite value, as numpy's true_divide does
RDiv(a, b) ==
    IF a[2] = 0 \/ b[2] = 0 \/ b[1] = 0 THEN NaN
    ELSE RMul(a, IF b[1] < 0 THEN <<-b[2], -b[1]>> ELSE <<b[2], b[1]>>)

RLess(a, b) == a[1] * b[2] < b[1] * a[2]

RLeq(a, b) == a[1] * b[2] <= b[1] * a[2]

\* a ** t for a natural t
RECURSIVE RPow(_, _)
RPow(a, t) == IF t = 0 THEN One ELSE RMul(a, RPow(a, t - 1))

RECURSIVE Pow10(_)
Pow10(k) == IF k = 0 THEN 1 ELSE 10 * Pow10(k - 1)

\* floor((n/d) * 10^k) for n >= 0, by long division
RECURSIVE ScaleFloor(_, _, _)
ScaleFloor(n, d, k) ==
    IF k = 0 THEN n \div d
    ELSE (n \div d) * Pow10(k) + ScaleFloor((n % d) * 10, d, k - 1)

\* floor(sqrt(n)) by bisection on lo <= r < hi
RECURSIVE ISqrtIn(_, _, _)
ISqrtIn(n, lo, hi) ==
    IF hi - lo <= 1 THEN lo
    ELSE LET mid == (lo + hi) \div 2
         IN IF mid * mid <= n THEN ISqrtIn(n, mid, hi) ELSE ISqrtIn(n, lo, mid)

ISqrt(n) == ISqrtIn(n, 0, 46341)

\* np.sqrt: nan for a negative argument
Sqrt(a) ==
    IF a[2] = 0 \/ a[1] < 0 THEN NaN
    ELSE Norm(ISqrt(ScaleFloor(a[1], a[2], 8)), 10000)

\* the literal 1e-8 of apply_grad
Eps == <<1, 100000000>>

\* ------------------------------------------------------------ arrays

\* an array value: its shape (at most two dimensions) and its elements in
\* row-major order; Fail is the outcome of an operation that raises
Fail == [shape |-> <<>>, data |-> <<>>]

IsFail(v) == v.data = <<>>

Scalar(c) == [shape |-> <<>>, data |-> <<c>>]

Pad2(s) == IF Len(s) = 0 THEN <<1, 1>> ELSE IF Len(s) = 1 THEN <<1, s[1]>> ELSE s

Size(s) == Pad2(s)[1] * Pad2(s)[2]

\* numpy broadcasting of one dimension; 0 when the dimensions are incompatible
BDim(a, b) == IF a = b THEN a ELSE IF a = 1 THEN b ELSE IF b = 1 THEN a ELSE 0

\* numpy broadcasting of two shapes; <<0>> when they do not broadcast
BShape(s1, s2) ==
    LET p1 == Pad2(s1)
        p2 == Pad2(s2)
        r1 == BDim(p1[1], p2[1])
        r2 == BDim(p1[2], p2[2])
        nd == IF Len(s1) > Len(s2) THEN Len(s1) ELSE Len(s2)
    IN IF r1 = 0 \/ r2 = 0 THEN <<0>>
       ELSE IF nd = 0 THEN <<>> ELSE IF nd = 1 THEN <<r2>> ELSE <<r1, r2>>

\* element (i, j) of v broadcast to a shape that v's shape broadcasts to
Elem(v, i, j) ==
    LET p == Pad2(v.shape)
    IN v.data[((IF p[1] = 1 THEN 1 ELSE i) - 1) * p[2] + (IF p[2] = 1 THEN 1 ELSE j)]

\* v broadcast to the shape s, in row-major order
Expand(v, s) ==
    [k \in 1..Size(s) |-> Elem(v, ((k - 1) \div Pad2(s)[2]) + 1, ((k - 1) % Pad2(s)[2]) + 1)]

NoBroadcast == [shape |-> <<0>>, l |-> <<>>, r |-> <<>>]

BroadcastTo(a, b, s) ==
    IF s = <<0>> THEN NoBroadcast ELSE [shape |-> s, l |-> Expand(a, s), r |-> Expand(b, s)]

\* the operands of an elementwise binary operation, broadcast against each
\* other; NoBroadcast when the operation raises
Broadcast(a, b) ==
    IF IsFail(a) \/ IsFail(b) THEN NoBroadcast ELSE BroadcastTo(a, b, BShape(a.shape, b.shape))

Sum(p) ==
    IF p.shape = <<0>> THEN Fail
    ELSE [shape |-> p.shape, data |-> [k \in DOMAIN p.l |-> RAdd(p.l[k], p.r[k])]]

Difference(p) ==
    IF p.shape = <<0>> THEN Fail
    ELSE [shape |-> p.shape, data |-> [k \in DOMAIN p.l |-> RSub(p.l[k], p.r[k])]]

Product(p) ==
    IF p.shape = <<0>> THEN Fail
    ELSE [shape |-> p.shape, data |-> [k \in DOMAIN p.l |-> RMul(p.l[k], p.r[k])]]

Quotient(p) ==
    IF p.shape = <<0>> THEN Fail
    ELSE [shape |-> p.shape, data |-> [k \in DOMAIN p.l |-> RDiv(p.l[k], p.r[k])]]

\* elementwise a + b, a - b, a * b, a / b
AAdd(a, b) == Sum(Broadcast(a, b))

ASub(a, b) == Difference(Broadcast(a, b))

AMul(a, b) == Product(Broadcast(a, b))

ADiv(a, b) == Quotient(Broadcast(a, b))

ASqrt(a) == IF IsFail(a) THEN Fail ELSE [shape |-> a.shape, data |-> [k \in DOMAIN a.data |-> Sqrt(a.data[k])]]

\* ndarray.reshape: a view of the same buffer; raises when the sizes differ
reshape(v, shape) ==
    IF IsFail(v) \/ Size(v.shape) # Size(shape) THEN Fail
    ELSE [shape |-> shape, data |-> v.data]

\* ------------------------------------------------------------ heap

\* number of buffers of the heap
NBuf == 8

None == [buf |-> 0, shape |-> <<>>]

EmptyHeap == [i \in 1..NBuf |-> <<>>]

\* the array a reference names
Deref(h, r) == IF r.buf = 0 THEN Fail ELSE [shape |-> r.shape, data |-> h[r.buf]]

\* the lowest free buffer
NewBuf(h) == CHOOSE i \in 1..NBuf : h[i] = <<>> /\ \A j \in 1..(i - 1) : h[j] # <<>>

\* a new array holding v
Ref(h, v) == [buf |-> NewBuf(h), shape |-> v.shape]

Store(h, v) == [h EXCEPT ![NewBuf(h)] = v.data]

\* buffers no longer referenced are freed
Collect(h, refs) == [i \in 1..NBuf |-> IF \E r \in refs : r.buf = i THEN h[i] ELSE <<>>]

\* ------------------------------------------------------------ optimizers

Classes == {"GradientDescent", "Momentum", "Nesterov", "Adagrad", "RMSProp", "Adam"}

\* __init__ of the six classes: the hyperparameters a class does not have are
\* Zero, the state fields it does not have stay None
Construct(cls, stepsize, momentum, decay, beta1, beta2) ==
    [cls |-> cls,
     stepsize |-> stepsize,
     momentum |-> IF cls \in {"Momentum", "Nesterov"} THEN momentum ELSE Zero,
     decay |-> IF cls = "RMSProp" THEN decay ELSE Zero,
     beta1 |-> IF cls = "Adam" THEN beta1 ELSE Zero,
     beta2 |-> IF cls = "Adam" THEN beta2 ELSE Zero,
     accumulation |-> None,
     firstmoment |-> None,
     secondmoment |-> None,
     t |-> 0]

\* what a gradient provider (grad_fn, or autograd.grad(objective_fn)) does at the
\* point it is called at: it raises, or it delivers the array g
Raises == [raises |-> TRUE, g |-> Fail]

Delivers(g) == [raises |-> FALSE, g |-> g]

GradRaise(h, point, via) == [ok |-> FALSE, h |-> h, g |-> None, point |-> point, via |-> via]

\* one call of the provider named via at point; the array it delivers is a new array
GradCall(h, point, oc, via) ==
    IF oc.raises THEN GradRaise(h, point, via)
    ELSE [ok |-> TRUE, h |-> Store(h, oc.g), g |-> Ref(h, oc.g), point |-> point, via |-> via]

\* a compute_grad that differentiates objective_fn although grad_fn is given
GradientDescentOptimizer_compute_grad_autograd(o, h, x, grad_fn, oc) ==
    GradCall(h, Deref(h, x), oc, "autograd")

\* GradientDescentOptimizer.compute_grad
GradientDescentOptimizer_compute_grad(o, h, x, grad_fn, oc) ==
    IF grad_fn THEN GradCall(h, Deref(h, x), oc, "grad_fn")
    ELSE GradCall(h, Deref(h, x), oc, "autograd")

\* a Nesterov compute_grad that does not shift the point
NesterovMomentumOptimizer_compute_grad_at_x(o, h, x, grad_fn, oc) ==
    IF grad_fn THEN GradCall(h, Deref(h, x), oc, "grad_fn")
    ELSE GradCall(h, Deref(h, x), oc, "autograd")

\* a look-ahead that calls the provider although computing shifted_x raised
Nesterov_grad_at_any(h, shifted_x, grad_fn, oc) ==
    IF grad_fn THEN GradCall(h, shifted_x, oc, "grad_fn") ELSE GradCall(h, shifted_x, oc, "autograd")

\* the provider called at shifted_x; computing shifted_x may have raised
Nesterov_grad_at(h, shifted_x, grad_fn, oc) ==
    IF IsFail(shifted_x) THEN GradRaise(h, Fail, "none")
    ELSE IF grad_fn THEN GradCall(h, shifted_x, oc, "grad_fn")
    ELSE GradCall(h, shifted_x, oc, "autograd")

\* NesterovMomentumOptimizer.compute_grad
NesterovMomentumOptimizer_compute_grad(o, h, x, grad_fn, oc) ==
    Nesterov_grad_at(h,
                     IF o.accumulation = None THEN Deref(h, x)
                     ELSE ASub(Deref(h, x), AMul(Scalar(o.momentum), Deref(h, o.accumulation))),
                     grad_fn, oc)

\* the execution of a method body: the optimizer and the heap as written so
\* far, and whether a statement has raised
Running(o, h) == [ok |-> TRUE, o |-> o, h |-> h]

\* self.<field> = v for a new array v; raises when computing v raised
Assign(w, field, v) ==
    IF ~w.ok THEN w
    ELSE IF IsFail(v) THEN [w EXCEPT !.ok = FALSE]
    ELSE [ok |-> TRUE, o |-> [w.o EXCEPT ![field] = Ref(w.h, v)], h |-> Store(w.h, v)]

\* an apply_grad that raises, with the state it leaves
Raise(o, h) == [ok |-> FALSE, o |-> o, h |-> h, out |-> None, adapted |-> Zero]

\* return v, a new array; raises when computing v raised
Return(w, v, adapted) ==
    IF ~w.ok \/ IsFail(v) THEN Raise(w.o, w.h)
    ELSE [ok |-> TRUE, o |-> w.o, h |-> Store(w.h, v), out |-> Ref(w.h, v), adapted |-> adapted]

\* a plain update done in place: x -= stepsize * grad; return x
InPlace(o, h, x, v) ==
    IF IsFail(v) \/ v.shape # x.shape THEN Raise(o, h)
    ELSE [ok |-> TRUE, o |-> o, h |-> [h EXCEPT ![x.buf] = v.data], out |-> x, adapted |-> Zero]

GradientDescentOptimizer_apply_grad_in_place(o, h, grad, x) ==
    InPlace(o, h, x, ASub(Deref(h, x), AMul(Scalar(o.stepsize), Deref(h, grad))))

\* a plain update that moves along the gradient
GradientDescentOptimizer_apply_grad_ascent(o, h, grad, x) ==
    Return(Running(o, h), AAdd(Deref(h, x), AMul(Scalar(o.stepsize), Deref(h, grad))), Zero)

GradientDescentOptimizer_apply_grad(o, h, grad, x) ==
    Return(Running(o, h), ASub(Deref(h, x), AMul(Scalar(o.stepsize), Deref(h, grad))), Zero)

\* return x - self.accumulation
Momentum_return(w, x) ==
    Return(w, ASub(Deref(w.h, x), Deref(w.h, w.o.accumulation)), Zero)

\* a Momentum update whose first accumulation is the unscaled gradient
MomentumOptimizer_apply_grad_unscaled(o, h, grad, x) ==
    Momentum_return(
        Assign(Running(o, h), "accumulation",
               IF o.accumulation = None
               THEN Deref(h, grad)
               ELSE AAdd(AMul(Scalar(o.momentum), Deref(h, o.accumulation)),
                         AMul(Scalar(o.stepsize), Deref(h, grad)))),
        x)

\* a Momentum update that does not damp the accumulation
MomentumOptimizer_apply_grad_undamped(o, h, grad, x) ==
    Momentum_return(
        Assign(Running(o, h), "accumulation",
               IF o.accumulation = None
               THEN AMul(Scalar(o.stepsize), Deref(h, grad))
               ELSE AAdd(Deref(h, o.accumulation), AMul(Scalar(o.stepsize), Deref(h, grad)))),
        x)

MomentumOptimizer_apply_grad(o, h, grad, x) ==
    Momentum_return(
        Assign(Running(o, h), "accumulation",
               IF o.accumulation = None
               THEN AMul(Scalar(o.stepsize), Deref(h, grad))
               ELSE AAdd(AMul(Scalar(o.momentum), Deref(h, o.accumulation)),
                         AMul(Scalar(o.stepsize), Deref(h, grad)))),
        x)

\* the update without the 1e-8 floor
AdaptiveUpdate_no_eps(w, grad, x) ==
    ASub(Deref(w.h, x),
         AMul(ADiv(Scalar(w.o.stepsize), ASqrt(Deref(w.h, w.o.accumulation))), Deref(w.h, grad)))

\* the value x - (stepsize / sqrt(accumulation + 1e-8)) * grad
AdaptiveUpdate(w, grad, x) ==
    ASub(Deref(w.h, x),
         AMul(ADiv(Scalar(w.o.stepsize),
                   ASqrt(AAdd(Deref(w.h, w.o.accumulation), Scalar(Eps)))),
              Deref(w.h, grad)))

Adaptive_return(w, grad, x) ==
    IF ~w.ok THEN Raise(w.o, w.h) ELSE Return(w, AdaptiveUpdate(w, grad, x), Zero)

\* self.accumulation += v.  On an ndarray += writes into its buffer and raises
\* when the sum does not have the array's shape; on a 0-d value (a numpy
\* scalar, immutable) it rebinds the field to the sum.
AddInPlace(w, sum) ==
    IF IsFail(sum) THEN [w EXCEPT !.ok = FALSE]
    ELSE IF Len(w.o.accumulation.shape) = 0 THEN Assign(w, "accumulation", sum)
    ELSE IF sum.shape # w.o.accumulation.shape THEN [w EXCEPT !.ok = FALSE]
    ELSE [w EXCEPT !.h = [w.h EXCEPT ![w.o.accumulation.buf] = sum.data]]

\* an accumulation that keeps only the latest squared gradient
Adagrad_accumulate_latest(w, gg) == Assign(w, "accumulation", gg)

Adagrad_accumulate(w, gg) ==
    IF w.o.accumulation = None THEN Assign(w, "accumulation", gg)
    ELSE AddInPlace(w, AAdd(Deref(w.h, w.o.accumulation), gg))

AdagradOptimizer_apply_grad(o, h, grad, x) ==
    Adaptive_return(Adagrad_accumulate(Running(o, h), AMul(Deref(h, grad), Deref(h, grad))),
                    grad, x)

\* grad * grad added to the accumulation without weights
RMSProp_accumulation_sum(o, h, gg) ==
    IF o.accumulation = None THEN gg ELSE AAdd(Deref(h, o.accumulation), gg)

\* grad * grad weighted into the decaying average
RMSProp_accumulation(o, h, gg) ==
    IF o.accumulation = None THEN AMul(Scalar(RSub(One, o.decay)), gg)
    ELSE AAdd(AMul(Scalar(o.decay), Deref(h, o.accumulation)),
              AMul(Scalar(RSub(One, o.decay)), gg))

RMSPropOptimizer_apply_grad(o, h, grad, x) ==
    Adaptive_return(
        Assign(Running(o, h), "accumulation",
               RMSProp_accumulation(o, h, AMul(Deref(h, grad), Deref(h, grad)))),
        grad, x)

\* the adapted step size computed with the t of the previous call
AdaptedStepsize_old_t(o) ==
    RDiv(RMul(o.stepsize, Sqrt(RSub(One, RPow(o.beta2, o.t - 1)))),
         RSub(One, RPow(o.beta1, o.t - 1)))

\* stepsize * sqrt(1 - beta2**t) / (1 - beta1**t), t being read once for each power
AdaptedStepsizeAt(o, t_beta2, t_beta1) ==
    RDiv(RMul(o.stepsize, Sqrt(RSub(One, RPow(o.beta2, t_beta2)))),
         RSub(One, RPow(o.beta1, t_beta1)))

AdaptedStepsize(o) == AdaptedStepsizeAt(o, o.t, o.t)

\* the first moment is the gradient array itself when unset
Adam_firstmoment(w, grad) ==
    IF w.o.firstmoment = None THEN [w EXCEPT !.o.firstmoment = grad]
    ELSE Assign(w, "firstmoment",
                AAdd(AMul(Scalar(w.o.beta1), Deref(w.h, w.o.firstmoment)),
                     AMul(Scalar(RSub(One, w.o.beta1)), Deref(w.h, grad))))

Adam_secondmoment(w, gg) ==
    IF ~w.ok THEN w
    ELSE Assign(w, "secondmoment",
                IF w.o.secondmoment = None THEN gg
                ELSE AAdd(AMul(Scalar(w.o.beta2), Deref(w.h, w.o.secondmoment)),
                          AMul(Scalar(RSub(One, w.o.beta2)), gg)))

\* the Adam update without the 1e-8 added to the divisor
Adam_update_no_eps(w, x, adapted_stepsize) ==
    Return(w,
           ASub(Deref(w.h, x),
                ADiv(AMul(Scalar(adapted_stepsize), Deref(w.h, w.o.firstmoment)),
                     ASqrt(Deref(w.h, w.o.secondmoment)))),
           adapted_stepsize)

Adam_update(w, x, adapted_stepsize) ==
    Return(w,
           ASub(Deref(w.h, x),
                ADiv(AMul(Scalar(adapted_stepsize), Deref(w.h, w.o.firstmoment)),
                     AAdd(ASqrt(Deref(w.h, w.o.secondmoment)), Scalar(Eps)))),
           adapted_stepsize)

Adam_return(w, x) == IF ~w.ok THEN Raise(w.o, w.h) ELSE Adam_update(w, x, AdaptedStepsize(w.o))

\* AdamOptimizer.apply_grad: t, firstmoment and secondmoment are written one
\* after the other, each before the next expression is evaluated
AdamOptimizer_apply_grad(o, h, grad, x) ==
    Adam_return(
        Adam_secondmoment(Adam_firstmoment(Running([o EXCEPT !.t = o.t + 1], h), grad),
                          AMul(Deref(h, grad), Deref(h, grad))),
        x)

\* reset() variants that forget a field
AdamOptimizer_reset_keeps_t(o) == [o EXCEPT !.firstmoment = None, !.secondmoment = None]

AdagradOptimizer_reset_noop(o) == o

MomentumOptimizer_reset(o) == [o EXCEPT !.accumulation = None]

AdagradOptimizer_reset(o) == [o EXCEPT !.accumulation = None]

AdamOptimizer_reset(o) == [o EXCEPT !.firstmoment = None, !.secondmoment = None, !.t = 0]

\* method resolution of the class hierarchy
compute_grad(o, h, x, grad_fn, oc) ==
    IF o.cls = "Nesterov" THEN NesterovMomentumOptimizer_compute_grad(o, h, x, grad_fn, oc)
    ELSE GradientDescentOptimizer_compute_grad(o, h, x, grad_fn, oc)

apply_grad(o, h, grad, x) ==
    CASE o.cls = "GradientDescent" -> GradientDescentOptimizer_apply_grad(o, h, grad, x)
      [] o.cls \in {"Momentum", "Nesterov"} -> MomentumOptimizer_apply_grad(o, h, grad, x)
      [] o.cls = "Adagrad" -> AdagradOptimizer_apply_grad(o, h, grad, x)
      [] o.cls = "RMSProp" -> RMSPropOptimizer_apply_grad(o, h, grad, x)
      [] o.cls = "Adam" -> AdamOptimizer_apply_grad(o, h, grad, x)

reset(o) ==
    CASE o.cls \in {"Momentum", "Nesterov"} -> MomentumOptimizer_reset(o)
      [] o.cls \in {"Adagrad", "RMSProp"} -> AdagradOptimizer_reset(o)
      [] o.cls = "Adam" -> AdamOptimizer_reset(o)

\* what a step call did: stage names the statement it ended in, c is what
\* compute_grad gave and a what apply_grad gave
Outcome(stage, c, a) ==
    [ok |-> a.ok /\ stage = "return", stage |-> stage, o |-> a.o, h |-> a.h, g |-> c.g,
     point |-> c.point, via |-> c.via, out |-> a.out, adapted |-> a.adapted]

step_return(c, a) == Outcome(IF a.ok THEN "return" ELSE "apply_grad", c, a)

\* a gradient handed on as delivered
Reshaped_as_delivered(g, x_shape) == g

\* g.reshape(x_shape): a view of g's buffer
Reshaped(g, x_shape) == IF Len(x_shape) > 1 THEN [buf |-> g.buf, shape |-> x_shape] ELSE g

\* the statements of a step that updates with the gradient as delivered and
\* reshapes afterwards
step_after_grad_reshape_late(o, x, c) ==
    IF ~c.ok THEN Outcome("compute_grad", c, Raise(o, c.h))
    ELSE LET a == apply_grad(o, c.h, c.g, x)
         IN IF Len(x.shape) > 1 /\ IsFail(reshape(Deref(c.h, c.g), x.shape))
            THEN Outcome("reshape", c, [a EXCEPT !.ok = FALSE, !.out = None])
            ELSE step_return(c, a)

\* the statements of step after compute_grad
step_after_grad(o, x, c) ==
    IF ~c.ok THEN Outcome("compute_grad", c, Raise(o, c.h))
    ELSE IF Len(x.shape) > 1 /\ IsFail(reshape(Deref(c.h, c.g), x.shape))
    THEN Outcome("reshape", c, Raise(o, c.h))
    ELSE step_return(c, apply_grad(o, c.h, Reshaped(c.g, x.shape), x))

\* GradientDescentOptimizer.step, inherited by every class
step(o, h, x, grad_fn, oc) == step_after_grad(o, x, compute_grad(o, h, x, grad_fn, oc))

\* ------------------------------------------------------------ callers

\* number of step and reset calls of a run
MaxCalls == 3

StepSizes == {<<1, 10>>}

Momenta == {<<1, 2>>, <<9, 10>>}

Decays == {<<1, 2>>}

Beta1s == {<<1, 2>>}

Beta2s == {<<3, 4>>}

Optimizers ==
    {Construct(cls, s, m, d, b1, b2) :
        cls \in Classes, s \in StepSizes, m \in Momenta, d \in Decays, b1 \in Beta1s, b2 \in Beta2s}

Array(shape, data) == [shape |-> shape, data |-> data]

\* the parameter arrays callers pass: 0-d, 1-d and 2-d
XArrays == {Array(<<>>, <<One>>), Array(<<2>>, <<One, Zero>>), Array(<<1, 2>>, <<Zero, One>>)}

\* the gradient values providers deliver, by size
GradData(size) ==
    IF size = 1 THEN {<<Rat(-1)>>, <<Zero>>, <<One>>}
    ELSE IF size = 2 THEN {<<Zero, Zero>>, <<One, Rat(-1)>>}
    ELSE {<<One, One, One>>}

\* what a provider may do for an x of shape s: raise, or deliver a gradient of
\* x's shape or, for an x of more than one dimension, flattened; a grad_fn may
\* also deliver an array of a wrong size
Outcomes(s, grad_fn) ==
    {Raises}
    \cup {Delivers(Array(s, d)) : d \in GradData(Size(s))}
    \cup (IF Len(s) > 1 THEN {Delivers(Array(<<Size(s)>>, d)) : d \in GradData(Size(s))} ELSE {})
    \cup (IF grad_fn THEN {Delivers(Array(<<3>>, d)) : d \in GradData(3)} ELSE {})

\* the state fields as values (Fail for None)
View(o, h) ==
    [accumulation |-> Deref(h, o.accumulation),
     firstmoment |-> Deref(h, o.firstmoment),
     secondmoment |-> Deref(h, o.secondmoment),
     t |-> o.t]

StateRefs(o) == {o.accumulation, o.firstmoment, o.secondmoment}

VARIABLES
    opt,    \* the optimizer object
    heap,   \* the array buffers
    call,   \* the latest call on the optimizer, as the caller saw it
    n,      \* step calls since construction or the last reset: made, having
            \* entered apply_grad, and returned
    th,     \* the two callers that share the optimizer without a lock
    sched   \* how their calls were scheduled

vars == <<opt, heap, call, n, th, sched>>

Threads == {1, 2}

\* a caller and the locals of its call: the arrays x and g, the objective's
\* coefficient c, the object a and the value v it computed from the field it
\* read last, the values tt it read from t, the adapted step size, and what the
\* call gave
Thread(op, x, c) ==
    [op |-> op, pc |-> "call", x |-> x, c |-> c, g |-> None, a |-> None, v |-> Fail, tt |-> 0,
     adapted |-> Zero, out |-> Fail, err |-> FALSE]

NoThread == [Thread("none", None, Fail) EXCEPT !.pc = "done"]

NoSched == [started |-> <<>>, overlap |-> FALSE, opt |-> Construct("GradientDescent", Zero, Zero, Zero, Zero, Zero), heap |-> EmptyHeap]

ResetCall ==
    [op |-> "reset", prev |-> call.op, ok |-> TRUE, stage |-> "return", x |-> None, xval |-> Fail,
     grad_fn |-> FALSE, oc |-> Raises, g |-> None, point |-> Fail, via |-> "none",
     out |-> None, adapted |-> Zero, pre |-> View(opt, heap), prevpre |-> call.pre,
     made |-> call.made + 1]

\* no step made since construction or the last reset
NoSteps == [calls |-> 0, entered |-> 0, returned |-> 0, grads |-> <<>>]

\* the gradient step hands to apply_grad for the call c
HandedGrad(c) == IF Len(c.xval.shape) > 1 THEN reshape(c.oc.g, c.xval.shape) ELSE c.oc.g

\* the steps made, with the step r seen by the caller as c: grads are the
\* gradients handed to apply_grad, in order
Counted(m, r, c) ==
    [calls |-> m.calls + 1,
     entered |-> m.entered + (IF r.stage \in {"apply_grad", "return"} THEN 1 ELSE 0),
     returned |-> m.returned + (IF r.ok THEN 1 ELSE 0),
     grads |-> IF r.stage \in {"apply_grad", "return"} THEN Append(m.grads, HandedGrad(c))
               ELSE m.grads]

\* no call made yet on the optimizer o
NoCall(o) ==
    [op |-> "new", prev |-> "new", ok |-> TRUE, stage |-> "return", x |-> None, xval |-> Fail,
     grad_fn |-> FALSE, oc |-> Raises, g |-> None, point |-> Fail, via |-> "none", out |-> None,
     adapted |-> Zero, pre |-> View(o, EmptyHeap), prevpre |-> View(o, EmptyHeap), made |-> 0]

Init ==
    /\ opt \in Optimizers
    /\ heap = EmptyHeap
    /\ call = NoCall(opt)
    /\ n = NoSteps
    /\ th = [i \in Threads |-> NoThread]
    /\ sched = NoSched

\* the arrays the caller holds after a call
Held(c) == {c.x, c.out} \cup (IF c.grad_fn THEN {c.g} ELSE {})

\* x_new = opt.step(objective_fn, x, grad_fn) on a new array x
\* a step call as the caller sees it: r is what step did on the array x
StepRecord(o, h, last, xv, grad_fn, oc, x, r) ==
    [r |-> r,
     c |-> [op |-> "step", prev |-> last.op, ok |-> r.ok, stage |-> r.stage, x |-> x,
            xval |-> xv, grad_fn |-> grad_fn, oc |-> oc, g |-> r.g, point |-> r.point,
            via |-> r.via, out |-> r.out, adapted |-> r.adapted, pre |-> View(o, h),
            prevpre |-> last.pre, made |-> last.made + 1]]

\* the caller drops the arrays of its previous call and passes a new array x
StepOn(o, h, last, xv, grad_fn, oc) ==
    StepRecord(o, h, last, xv, grad_fn, oc, Ref(h, xv), step(o, Store(h, xv), Ref(h, xv), grad_fn, oc))

StepCall(o, h, last, xv, grad_fn, oc) == StepOn(o, Collect(h, StateRefs(o)), last, xv, grad_fn, oc)

Step(xv, grad_fn, oc) ==
    /\ call.made < MaxCalls
    /\ \E s \in {StepCall(opt, heap, call, xv, grad_fn, oc)} :
        /\ opt' = s.r.o
        /\ heap' = Collect(s.r.h, StateRefs(s.r.o) \cup Held(s.c))
        /\ call' = s.c
        /\ n' = Counted(n, s.r, s.c)
        /\ UNCHANGED <<th, sched>>

\* opt.reset(); GradientDescentOptimizer has no such method
Reset ==
    /\ call.made < MaxCalls
    /\ opt.cls # "GradientDescent"
    /\ opt' = reset(opt)
    /\ heap' = Collect(heap, StateRefs(opt'))
    /\ call' = ResetCall
    /\ n' = NoSteps
    /\ UNCHANGED <<th, sched>>

Next ==
    \/ \E xv \in XArrays, grad_fn \in BOOLEAN :
        \E oc \in Outcomes(xv.shape, grad_fn) : Step(xv, grad_fn, oc)
    \/ Reset

Spec == Init /\ [][Next]_vars

\* ------------------------------------------------------------ shared optimizer
\* Two callers share one optimizer object and call it without a lock.  A call
\* advances one read or one write of a state field at a time; pc names the
\* source line the caller is at (r: the read of an assignment, w: its write).

\* the gradient at point of the objective |p|^2 / 2 + c . p
Gradient(point, c) == AAdd(point, c)

ApplyEntry(cls) ==
    CASE cls \in {"Momentum", "Nesterov"} -> "m48"
      [] cls = "Adagrad" -> "a89"
      [] cls = "RMSProp" -> "r109"
      [] cls = "Adam" -> "d131r"

Entry(op, cls) ==
    IF op = "step" THEN (IF cls = "Nesterov" THEN "n68" ELSE "g28")
    ELSE CASE cls \in {"Momentum", "Nesterov"} -> "z56"
           [] cls \in {"Adagrad", "RMSProp"} -> "z97"
           [] cls = "Adam" -> "z152"

At(i, pc) == th[i].pc = pc

Goto(t, pc) == [t EXCEPT !.pc = pc]

\* the call returns out; its locals are dropped
Done(t, out) ==
    [t EXCEPT !.pc = "done", !.out = out, !.g = None, !.a = None, !.v = Fail, !.tt = 0,
              !.adapted = Zero]

\* the call raises (a TypeError on a field that is None)
Fault(t) == [Done(t, Fail) EXCEPT !.err = TRUE]

\* the arrays a caller holds
Locals(t) == {t.x, t.g, t.a}

\* caller i moves to t, leaving the optimizer as o and the heap as h
Tick(i, t, o, h) ==
    /\ th' = [th EXCEPT ![i] = t]
    /\ opt' = o
    /\ heap' = Collect(h, StateRefs(o) \cup Locals(t) \cup UNION {Locals(th[j]) : j \in Threads \ {i}})
    /\ UNCHANGED <<call, n, sched>>

\* self.<field> = v, a new array
Write(i, t, field, v) == Tick(i, t, [opt EXCEPT ![field] = Ref(heap, v)], Store(heap, v))

\* g = grad_fn(point), a new array
Provide(i, g, pc) == Tick(i, [th[i] EXCEPT !.g = Ref(heap, g), !.pc = pc], opt, Store(heap, g))

\* caller i enters step or reset
Call(i) ==
    /\ At(i, "call")
    /\ th' = [th EXCEPT ![i].pc = Entry(th[i].op, opt.cls)]
    /\ sched' = [sched EXCEPT !.started = Append(@, i),
                              !.overlap = @ \/ \E j \in Threads \ {i} : th[j].pc \notin {"call", "done"}]
    /\ UNCHANGED <<opt, heap, call, n>>

\* GradientDescentOptimizer.compute_grad
G28(i) == At(i, "g28") /\ Provide(i, Gradient(Deref(heap, th[i].x), th[i].c), ApplyEntry(opt.cls))

\* NesterovMomentumOptimizer.compute_grad
N68(i) ==
    /\ At(i, "n68")
    /\ IF opt.accumulation = None
       THEN Provide(i, Gradient(Deref(heap, th[i].x), th[i].c), "m48")
       ELSE Tick(i, Goto(th[i], "n71"), opt, heap)

N71(i) ==
    /\ At(i, "n71")
    /\ IF opt.accumulation = None THEN Tick(i, Fault(th[i]), opt, heap)
       ELSE Provide(i,
                    Gradient(ASub(Deref(heap, th[i].x),
                                  AMul(Scalar(opt.momentum), Deref(heap, opt.accumulation))),
                             th[i].c),
                    "m48")

\* MomentumOptimizer.apply_grad
M48(i) ==
    /\ At(i, "m48")
    /\ Tick(i, Goto(th[i], IF opt.accumulation = None THEN "m49" ELSE "m51r"), opt, heap)

M49(i) ==
    /\ At(i, "m49")
    /\ Write(i, Goto(th[i], "m52"), "accumulation", AMul(Scalar(opt.stepsize), Deref(heap, th[i].g)))

M51r(i) ==
    /\ At(i, "m51r")
    /\ IF opt.accumulation = None THEN Tick(i, Fault(th[i]), opt, heap)
       ELSE Tick(i,
                 [th[i] EXCEPT !.pc = "m51w",
                               !.v = AAdd(AMul(Scalar(opt.momentum), Deref(heap, opt.accumulation)),
                                          AMul(Scalar(opt.stepsize), Deref(heap, th[i].g)))],
                 opt, heap)

M51w(i) ==
    /\ At(i, "m51w")
    /\ Write(i, [th[i] EXCEPT !.pc = "m52", !.v = Fail], "accumulation", th[i].v)

M52(i) ==
    /\ At(i, "m52")
    /\ IF opt.accumulation = None THEN Tick(i, Fault(th[i]), opt, heap)
       ELSE Tick(i, Done(th[i], ASub(Deref(heap, th[i].x), Deref(heap, opt.accumulation))), opt, heap)

\* AdagradOptimizer.apply_grad
A89(i) ==
    /\ At(i, "a89")
    /\ Tick(i, Goto(th[i], IF opt.accumulation = None THEN "a90" ELSE "a92r"), opt, heap)

A90(i) ==
    /\ At(i, "a90")
    /\ Write(i, Goto(th[i], "a93"), "accumulation", AMul(Deref(heap, th[i].g), Deref(heap, th[i].g)))

\* += reads the field and adds into the array it read (a 0-d value is
\* immutable: the sum is a new value)
A92r(i) ==
    /\ At(i, "a92r")
    /\ IF opt.accumulation = None THEN Tick(i, Fault(th[i]), opt, heap)
       ELSE IF Len(opt.accumulation.shape) = 0
       THEN Tick(i,
                 [th[i] EXCEPT !.pc = "a92w",
                               !.v = AAdd(Deref(heap, opt.accumulation),
                                          AMul(Deref(heap, th[i].g), Deref(heap, th[i].g)))],
                 opt, heap)
       ELSE Tick(i, [th[i] EXCEPT !.pc = "a92w", !.a = opt.accumulation], opt,
                 [heap EXCEPT ![opt.accumulation.buf] =
                     AAdd(Deref(heap, opt.accumulation),
                          AMul(Deref(heap, th[i].g), Deref(heap, th[i].g))).data])

\* += stores the result in the field
A92w(i) ==
    /\ At(i, "a92w")
    /\ IF th[i].a = None
       THEN Write(i, [th[i] EXCEPT !.pc = "a93", !.v = Fail], "accumulation", th[i].v)
       ELSE Tick(i, [th[i] EXCEPT !.pc = "a93", !.a = None],
                 [opt EXCEPT !.accumulation = th[i].a], heap)

A93(i) ==
    /\ At(i, "a93")
    /\ IF opt.accumulation = None THEN Tick(i, Fault(th[i]), opt, heap)
       ELSE Tick(i, Done(th[i], AdaptiveUpdate(Running(opt, heap), th[i].g, th[i].x)), opt, heap)

\* RMSPropOptimizer.apply_grad
R109(i) ==
    /\ At(i, "r109")
    /\ Tick(i, Goto(th[i], IF opt.accumulation = None THEN "r110" ELSE "r112r"), opt, heap)

R110(i) ==
    /\ At(i, "r110")
    /\ Write(i, Goto(th[i], "r113"), "accumulation",
             AMul(Scalar(RSub(One, opt.decay)), AMul(Deref(heap, th[i].g), Deref(heap, th[i].g))))

R112r(i) ==
    /\ At(i, "r112r")
    /\ IF opt.accumulation = None THEN Tick(i, Fault(th[i]), opt, heap)
       ELSE Tick(i,
                 [th[i] EXCEPT !.pc = "r112w",
                               !.v = AAdd(AMul(Scalar(opt.decay), Deref(heap, opt.accumulation)),
                                          AMul(Scalar(RSub(One, opt.decay)),
                                               AMul(Deref(heap, th[i].g), Deref(heap, th[i].g))))],
                 opt, heap)

R112w(i) ==
    /\ At(i, "r112w")
    /\ Write(i, [th[i] EXCEPT !.pc = "r113", !.v = Fail], "accumulation", th[i].v)

R113(i) ==
    /\ At(i, "r113")
    /\ IF opt.accumulation = None THEN Tick(i, Fault(th[i]), opt, heap)
       ELSE Tick(i, Done(th[i], AdaptiveUpdate(Running(opt, heap), th[i].g, th[i].x)), opt, heap)

\* an increment of t that stores the value read
D131w_no_increment(i) ==
    /\ At(i, "d131w")
    /\ Tick(i, [th[i] EXCEPT !.pc = "d134", !.tt = 0], [opt EXCEPT !.t = th[i].tt], heap)

\* AdamOptimizer.apply_grad
D131r(i) == At(i, "d131r") /\ Tick(i, [th[i] EXCEPT !.pc = "d131w", !.tt = opt.t], opt, heap)

D131w(i) ==
    /\ At(i, "d131w")
    /\ Tick(i, [th[i] EXCEPT !.pc = "d134", !.tt = 0], [opt EXCEPT !.t = th[i].tt + 1], heap)

D134(i) ==
    /\ At(i, "d134")
    /\ Tick(i, Goto(th[i], IF opt.firstmoment = None THEN "d135" ELSE "d137r"), opt, heap)

D135(i) ==
    /\ At(i, "d135")
    /\ Tick(i, Goto(th[i], "d140"), [opt EXCEPT !.firstmoment = th[i].g], heap)

D137r(i) ==
    /\ At(i, "d137r")
    /\ IF opt.firstmoment = None THEN Tick(i, Fault(th[i]), opt, heap)
       ELSE Tick(i,
                 [th[i] EXCEPT !.pc = "d137w",
                               !.v = AAdd(AMul(Scalar(opt.beta1), Deref(heap, opt.firstmoment)),
                                          AMul(Scalar(RSub(One, opt.beta1)), Deref(heap, th[i].g)))],
                 opt, heap)

D137w(i) ==
    /\ At(i, "d137w")
    /\ Write(i, [th[i] EXCEPT !.pc = "d140", !.v = Fail], "firstmoment", th[i].v)

D140(i) ==
    /\ At(i, "d140")
    /\ Tick(i, Goto(th[i], IF opt.secondmoment = None THEN "d141" ELSE "d143r"), opt, heap)

D141(i) ==
    /\ At(i, "d141")
    /\ Write(i, Goto(th[i], "d146a"), "secondmoment", AMul(Deref(heap, th[i].g), Deref(heap, th[i].g)))

D143r(i) ==
    /\ At(i, "d143r")
    /\ IF opt.secondmoment = None THEN Tick(i, Fault(th[i]), opt, heap)
       ELSE Tick(i,
                 [th[i] EXCEPT !.pc = "d143w",
                               !.v = AAdd(AMul(Scalar(opt.beta2), Deref(heap, opt.secondmoment)),
                                          AMul(Scalar(RSub(One, opt.beta2)),
                                               AMul(Deref(heap, th[i].g), Deref(heap, th[i].g))))],
                 opt, heap)

D143w(i) ==
    /\ At(i, "d143w")
    /\ Write(i, [th[i] EXCEPT !.pc = "d146a", !.v = Fail], "secondmoment", th[i].v)

\* self.beta2**self.t is evaluated before self.beta1**self.t
D146a(i) == At(i, "d146a") /\ Tick(i, [th[i] EXCEPT !.pc = "d146b", !.tt = opt.t], opt, heap)

D146b(i) ==
    /\ At(i, "d146b")
    /\ Tick(i,
            [th[i] EXCEPT !.pc = "d148f", !.tt = 0,
                          !.adapted = AdaptedStepsizeAt(opt, th[i].tt, opt.t)],
            opt, heap)

\* adapted_stepsize * self.firstmoment is evaluated before np.sqrt(self.secondmoment)
D148f(i) ==
    /\ At(i, "d148f")
    /\ IF opt.firstmoment = None THEN Tick(i, Fault(th[i]), opt, heap)
       ELSE Tick(i,
                 [th[i] EXCEPT !.pc = "d148s",
                               !.v = AMul(Scalar(th[i].adapted), Deref(heap, opt.firstmoment))],
                 opt, heap)

D148s(i) ==
    /\ At(i, "d148s")
    /\ IF opt.secondmoment = None THEN Tick(i, Fault(th[i]), opt, heap)
       ELSE Tick(i,
                 Done(th[i],
                      ASub(Deref(heap, th[i].x),
                           ADiv(th[i].v, AAdd(ASqrt(Deref(heap, opt.secondmoment)), Scalar(Eps))))),
                 opt, heap)

\* reset of MomentumOptimizer, AdagradOptimizer and AdamOptimizer
Z56(i) == At(i, "z56") /\ Tick(i, Done(th[i], Fail), [opt EXCEPT !.accumulation = None], heap)

Z97(i) == At(i, "z97") /\ Tick(i, Done(th[i], Fail), [opt EXCEPT !.accumulation = None], heap)

Z152(i) == At(i, "z152") /\ Tick(i, Goto(th[i], "z153"), [opt EXCEPT !.firstmoment = None], heap)

Z153(i) == At(i, "z153") /\ Tick(i, Goto(th[i], "z154"), [opt EXCEPT !.secondmoment = None], heap)

Z154(i) == At(i, "z154") /\ Tick(i, Done(th[i], Fail), [opt EXCEPT !.t = 0], heap)

\* the arrays the two callers pass and the objectives they minimise
ThreadShapes == {<<>>, <<2>>}

ThreadX(s) == Array(s, IF s = <<>> THEN <<One>> ELSE <<One, Zero>>)

ThreadC(s) ==
    IF s = <<>> THEN {Array(s, <<One>>), Array(s, <<Rat(-1)>>)}
    ELSE {Array(s, <<One, Rat(-1)>>), Array(s, <<Zero, One>>)}

\* the optimizer as constructed, or after one step made before it is shared
Primed(o, primed, xv) ==
    IF primed THEN step(o, Store(EmptyHeap, xv), Ref(EmptyHeap, xv), TRUE, Delivers(Gradient(xv, xv)))
    ELSE Raise(o, EmptyHeap)

\* the two callers with their arrays x, each a new array
Shared(o, h, xv, op2, c1, c2) ==
    [opt |-> o,
     heap |-> Store(Store(h, xv), xv),
     th |-> [i \in Threads |->
                IF i = 1 THEN Thread("step", Ref(h, xv), c1)
                ELSE Thread(op2, Ref(Store(h, xv), xv), c2)]]

InitThreads ==
    \E o \in Optimizers, s \in ThreadShapes, primed \in BOOLEAN, op2 \in {"step", "reset"} :
        \E c1 \in ThreadC(s), c2 \in ThreadC(s), p \in {Primed(o, primed, ThreadX(s))} :
            \E w \in {Shared(p.o, Collect(p.h, StateRefs(p.o)), ThreadX(s), op2, c1, c2)} :
                /\ o.cls # "GradientDescent"
                /\ opt = w.opt
                /\ heap = w.heap
                /\ th = w.th
                /\ sched = [started |-> <<>>, overlap |-> FALSE, opt |-> w.opt, heap |-> w.heap]
                /\ call = NoCall(w.opt)
                /\ n = NoSteps

NextThreads ==
    \E i \in Threads :
        \/ Call(i)
        \/ G28(i) \/ N68(i) \/ N71(i)
        \/ M48(i) \/ M49(i) \/ M51r(i) \/ M51w(i) \/ M52(i)
        \/ A89(i) \/ A90(i) \/ A92r(i) \/ A92w(i) \/ A93(i)
        \/ R109(i) \/ R110(i) \/ R112r(i) \/ R112w(i) \/ R113(i)
        \/ D131r(i) \/ D131w(i) \/ D134(i) \/ D135(i) \/ D137r(i) \/ D137w(i)
        \/ D140(i) \/ D141(i) \/ D143r(i) \/ D143w(i)
        \/ D146a(i) \/ D146b(i) \/ D148f(i) \/ D148s(i)
        \/ Z56(i) \/ Z97(i) \/ Z152(i) \/ Z153(i) \/ Z154(i)

SpecThreads == InitThreads /\ [][NextThreads]_vars

\* ------------------------------------------------------------ properties

\* np.all(a == b), with broadcasting
AllEq(a, b) ==
    LET p == Broadcast(a, b)
    IN p.shape # <<0>> /\ \A k \in DOMAIN p.l : p.l[k] = p.r[k]

\* a state field that is unset or holds only zeros
UnsetOrZero(v) == \A k \in DOMAIN v.data : v.data[k] = Zero

\* the gradient the latest step handed to apply_grad
UsedGrad == IF Len(call.xval.shape) > 1 THEN reshape(call.oc.g, call.xval.shape) ELSE call.oc.g

Entered == call.op = "step" /\ call.stage \in {"apply_grad", "return"}

Returned == call.op = "step" /\ call.ok

\* the optimizer as its constructor leaves it
Fresh == Construct(opt.cls, opt.stepsize, opt.momentum, opt.decay, opt.beta1, opt.beta2)

\* the latest step call, made on the optimizer o instead
Replay(o) == StepCall(o, EmptyHeap, call, call.xval, call.grad_fn, call.oc)

\* C1: a step that directly follows reset() returns the same x_new (or raises
\* alike) and leaves the same state as that step on a newly constructed
\* optimizer with the same hyperparameters.
C1_ResetThenStepAsFresh ==
    (call.op = "step" /\ call.prev = "reset") =>
        LET f == Replay(Fresh)
        IN /\ f.r.ok = call.ok
           /\ f.r.stage = call.stage
           /\ Deref(f.r.h, f.r.out) = Deref(heap, call.out)
           /\ View(f.r.o, f.r.h) = View(opt, heap)

\* a step returned after reset() of an Adam optimizer that had made steps
C1_Witness ==
    /\ Returned /\ call.prev = "reset" /\ opt.cls = "Adam"
    /\ call.prevpre.t > 0 /\ ~IsFail(call.prevpre.firstmoment)

\* C2 as claimed: whenever step raises, every state field has the value it had
\* before the call.
C2_RaiseKeepsState == (call.op = "step" /\ ~call.ok) => View(opt, heap) = call.pre

\* C2 as amended: a step that raises in compute_grad (the provider, Nesterov's
\* look-ahead) or in the reshape leaves every state field as it was.
C2_GradRaiseKeepsState ==
    (call.op = "step" /\ ~call.ok /\ call.stage \in {"compute_grad", "reshape"}) =>
        View(opt, heap) = call.pre

\* a reshape that raised on an optimizer holding state
C2_Witness ==
    /\ call.op = "step" /\ ~call.ok /\ call.stage = "reshape"
    /\ ~IsFail(call.pre.accumulation)

ZeroGradStep == Returned /\ UnsetOrZero(call.oc.g)

Unmoved == AllEq(Deref(heap, call.out), call.xval)

\* C3 as claimed: a zero-gradient step returns x for the base class and for
\* Momentum/Nesterov with accumulation unset or zero, and only for them:
\* Adagrad, RMSProp and Adam move x.
C3_ZeroGradMovesAdaptive ==
    ZeroGradStep =>
        (Unmoved <=> \/ opt.cls = "GradientDescent"
                     \/ opt.cls \in {"Momentum", "Nesterov"} /\ UnsetOrZero(call.pre.accumulation))

\* C3 as amended: a zero-gradient step returns x for the base class, for every
\* Adagrad and RMSProp optimizer, for Momentum/Nesterov with accumulation unset
\* or zero and for Adam with firstmoment unset or zero; otherwise it moves x.
C3_ZeroGradUnmoved ==
    ZeroGradStep =>
        (Unmoved <=> \/ opt.cls \in {"GradientDescent", "Adagrad", "RMSProp"}
                     \/ opt.cls \in {"Momentum", "Nesterov"} /\ UnsetOrZero(call.pre.accumulation)
                     \/ opt.cls = "Adam" /\ UnsetOrZero(call.pre.firstmoment))

\* a zero-gradient step of Adagrad or RMSProp whose accumulation was zero, so
\* that the divisor is sqrt(0 + 1e-8)
C3_Witness ==
    /\ ZeroGradStep /\ opt.cls \in {"Adagrad", "RMSProp"}
    /\ UnsetOrZero(call.pre.accumulation) /\ ~IsFail(call.pre.accumulation) /\ Unmoved

\* the Momentum update of the latest step, from the state before it
MomentumAccumulation ==
    IF IsFail(call.pre.accumulation) THEN AMul(Scalar(opt.stepsize), UsedGrad)
    ELSE AAdd(AMul(Scalar(opt.momentum), call.pre.accumulation), AMul(Scalar(opt.stepsize), UsedGrad))

\* C4: Nesterov calls the provider (grad_fn or autograd alike) at x when
\* accumulation is unset and at x - momentum * accumulation otherwise, and
\* then applies the Momentum update.
C4_NesterovLookAhead ==
    (opt.cls = "Nesterov" /\ call.op = "step") =>
        /\ call.point = (IF IsFail(call.pre.accumulation) THEN call.xval
                         ELSE ASub(call.xval, AMul(Scalar(opt.momentum), call.pre.accumulation)))
        /\ call.via = (IF IsFail(call.point) THEN "none"
                       ELSE IF call.grad_fn THEN "grad_fn" ELSE "autograd")
        /\ Returned => /\ View(opt, heap).accumulation = MomentumAccumulation
                       /\ Deref(heap, call.out) = ASub(call.xval, MomentumAccumulation)

\* a Nesterov step returned from a shifted point that differs from x
C4_Witness ==
    /\ opt.cls = "Nesterov" /\ Returned /\ ~IsFail(call.pre.accumulation)
    /\ call.point # call.xval /\ ~call.grad_fn

\* C5: the first step of a Momentum optimizer (accumulation unset) returns
\* what GradientDescentOptimizer with the same stepsize returns on the same x
\* and gradient, whatever momentum is, and stores stepsize * g.
C5_MomentumFirstStepIsPlain ==
    (opt.cls = "Momentum" /\ Entered /\ IsFail(call.pre.accumulation)) =>
        LET b == Replay(Construct("GradientDescent", opt.stepsize, Zero, Zero, Zero, Zero))
        IN /\ b.r.ok = call.ok
           /\ Deref(b.r.h, b.r.out) = Deref(heap, call.out)
           /\ View(opt, heap).accumulation = AMul(Scalar(opt.stepsize), UsedGrad)

\* a first Momentum step with a nonzero gradient, following a reset
C5_Witness ==
    /\ opt.cls = "Momentum" /\ Returned /\ IsFail(call.pre.accumulation)
    /\ call.prev = "reset" /\ ~UnsetOrZero(call.oc.g)

\* C6 as claimed: Adam's t is the number of step calls made since
\* construction or the last reset.
C6_TCountsCalls == opt.cls = "Adam" => opt.t = n.calls

\* C6 as amended: Adam's t is the number of step calls since construction or
\* the last reset that entered apply_grad; such a call adds exactly 1 to t, any
\* other leaves t alone, reset makes it 0, and the adapted step size of a
\* returned step is computed with the incremented t (the first with t = 1).
C6_TCountsAppliedSteps ==
    opt.cls = "Adam" =>
        /\ opt.t = n.entered
        /\ call.op = "reset" => opt.t = 0
        /\ call.op = "step" => opt.t = call.pre.t + (IF Entered THEN 1 ELSE 0)
        /\ Returned =>
            call.adapted = RDiv(RMul(opt.stepsize, Sqrt(RSub(One, RPow(opt.beta2, call.pre.t + 1)))),
                                RSub(One, RPow(opt.beta1, call.pre.t + 1)))
        /\ (Returned /\ n.entered = 1) =>
            call.adapted = RDiv(RMul(opt.stepsize, Sqrt(RSub(One, opt.beta2))), RSub(One, opt.beta1))

\* the second Adam step since a reset has returned, after a call that raised
\* in compute_grad
C6_Witness ==
    /\ opt.cls = "Adam" /\ Returned /\ opt.t = 2 /\ n.calls = 2 /\ call.made = 3

Uninitialized ==
    /\ opt.accumulation = None /\ opt.firstmoment = None /\ opt.secondmoment = None /\ opt.t = 0

Active ==
    IF opt.cls = "Adam"
    THEN opt.firstmoment # None /\ opt.secondmoment # None /\ opt.t >= 1 /\ opt.accumulation = None
    ELSE opt.accumulation # None /\ opt.firstmoment = None /\ opt.secondmoment = None /\ opt.t = 0

\* some step call would return in this state
CanStep ==
    \E xv \in XArrays, grad_fn \in BOOLEAN :
        \E oc \in Outcomes(xv.shape, grad_fn) : StepCall(opt, heap, call, xv, grad_fn, oc).r.ok

\* C7 as claimed: every class is UNINITIALIZED exactly when no step has
\* completed since construction or the last reset.
C7_UninitializedIffNoStep == Uninitialized <=> n.returned = 0

\* C7 as amended: a class with memory is UNINITIALIZED exactly when no step
\* has entered apply_grad since construction or the last reset, and ACTIVE
\* otherwise; reset() leaves it UNINITIALIZED; GradientDescentOptimizer has no
\* state and stays UNINITIALIZED; in every state some step call returns.
C7_Lifecycle ==
    /\ opt.cls # "GradientDescent" => /\ Uninitialized <=> n.entered = 0
                                      /\ Active <=> n.entered > 0
    /\ opt.cls = "GradientDescent" => Uninitialized
    /\ call.op = "reset" => Uninitialized
    /\ CanStep

\* an optimizer that is ACTIVE again after step, reset, step
C7_Witness ==
    /\ Returned /\ call.prev = "reset" /\ Active /\ ~IsFail(call.prevpre.accumulation)

\* C8 as claimed: after a step no state field names the buffer of an array the
\* caller holds (x, the array its grad_fn returned, x_new).
C8_StateNotAliased ==
    call.op = "step" =>
        \A f \in StateRefs(opt) : \A c \in Held(call) : f.buf # 0 => f.buf # c.buf

\* C9: step leaves the contents of x as they were and returns an array that
\* is not x.
C9_XUntouched ==
    call.op = "step" =>
        /\ Deref(heap, call.x) = call.xval
        /\ call.ok => call.out.buf # 0 /\ call.out.buf # call.x.buf

\* a zero-gradient Adagrad step that added into its accumulation in place
C9_Witness ==
    /\ ZeroGradStep /\ opt.cls = "Adagrad" /\ ~IsFail(call.pre.accumulation)
    /\ Len(opt.accumulation.shape) > 0

\* ---- C10

AllDone == \A i \in Threads : th[i].pc = "done"

\* what the two calls gave: the state left, and per caller x_new or a failure
Observed ==
    [view |-> View(opt, heap), out |-> [i \in Threads |-> th[i].out],
     err |-> [i \in Threads |-> th[i].err]]

\* the call of caller t made alone on the optimizer s.o
Atomically(s, t) ==
    IF t.op = "reset" THEN [o |-> reset(s.o), h |-> s.h, out |-> Fail, err |-> FALSE]
    ELSE LET p == compute_grad(s.o, s.h, t.x, TRUE, Raises).point
             r == step(s.o, s.h, t.x, TRUE, Delivers(Gradient(p, t.c)))
         IN [o |-> r.o, h |-> Collect(r.h, StateRefs(r.o) \cup {th[k].x : k \in Threads}),
             out |-> Deref(r.h, r.out), err |-> ~r.ok]

\* the outcome of the call of caller i followed by the call of caller j
Serial(i, j) ==
    LET a == Atomically([o |-> sched.opt, h |-> sched.heap], th[i])
        b == Atomically(a, th[j])
    IN [view |-> View(b.o, b.h), out |-> [k \in Threads |-> IF k = i THEN a.out ELSE b.out],
        err |-> [k \in Threads |-> IF k = i THEN a.err ELSE b.err]]

\* C10: when the two calls on a shared Momentum, Nesterov, Adagrad, RMSProp or
\* Adam optimizer are serialized (the second starts after the first has
\* ended), the state left and what each call returned are those of the serial
\* execution in that order.  (That an interleaving of the reads and writes
\* exists whose outcome matches no serial order is what C10_Witness reaches.)
C10_SerializedMatchesSerialOrder ==
    (AllDone /\ ~sched.overlap) => Observed = Serial(sched.started[1], sched.started[2])

\* two interleaved calls whose outcome is that of neither serial order
C10_Witness == AllDone /\ sched.overlap /\ Observed \notin {Serial(1, 2), Serial(2, 1)}

\* ---- C11

\* the state arrays of a view that are set
SetArrays(v) == {f \in {v.accumulation, v.firstmoment, v.secondmoment} : ~IsFail(f)}

\* the state arrays a class has
StateArrays(v) ==
    IF opt.cls = "GradientDescent" THEN {}
    ELSE IF opt.cls = "Adam" THEN {v.firstmoment, v.secondmoment}
    ELSE {v.accumulation}

\* the provider delivered a gradient of x's shape or, for an x of more than one
\* dimension, flattened
DeliveredInShape ==
    /\ call.op = "step" /\ call.stage # "compute_grad"
    /\ \/ call.oc.g.shape = call.xval.shape
       \/ Len(call.xval.shape) > 1 /\ call.oc.g.shape = <<Size(call.xval.shape)>>

\* the latest step was made with an x of the shape of the state held, and the
\* gradient was delivered in shape
Conforming == DeliveredInShape /\ \A f \in SetArrays(call.pre) : f.shape = call.xval.shape

\* C11: a step on x of the shape S of the state held (or on unset state) whose
\* gradient is delivered with shape S or, for S of more than one dimension,
\* flattened, returns x_new of shape S and leaves every state array of the
\* class set with shape S, so that steps on one fixed shape keep that shape;
\* the reshape is attempted exactly when S has more than one dimension, a
\* gradient for a 0-d or 1-d x being used as delivered.
C11_ShapePreserved ==
    /\ Conforming =>
        /\ call.ok
        /\ call.out.shape = call.xval.shape
        /\ StateArrays(View(opt, heap)) = SetArrays(View(opt, heap))
        /\ \A f \in SetArrays(View(opt, heap)) : f.shape = call.xval.shape
    /\ (call.op = "step" /\ call.stage = "reshape") => Len(call.xval.shape) > 1
    /\ (call.op = "step" /\ call.stage # "compute_grad" /\ Len(call.xval.shape) > 1) =>
        (call.stage = "reshape" <=> Size(call.oc.g.shape) # Size(call.xval.shape))
    /\ (opt.cls = "Adam" /\ Entered /\ IsFail(call.pre.firstmoment)) =>
        View(opt, heap).firstmoment = UsedGrad
    /\ (Entered /\ Len(call.xval.shape) <= 1) => UsedGrad = call.oc.g

\* the second step of an Adam optimizer on a 2-d x, its gradient delivered
\* flattened
C11_Witness ==
    /\ Conforming /\ opt.cls = "Adam" /\ opt.t = 2
    /\ Len(call.xval.shape) > 1 /\ Len(call.oc.g.shape) = 1

\* ---- C12

\* the step x = 1.0, g = 2.0 made on the optimizer in its present state
ExampleStep(grad_fn) ==
    StepCall(opt, heap, call, Array(<<>>, <<One>>), grad_fn, Delivers(Array(<<>>, <<Rat(2)>>))).r

\* C12: GradientDescentOptimizer is stateless: a step computes the gradient
\* at x, returns x - stepsize * g whatever steps were made before (the same
\* as a newly constructed optimizer returns), and changes no field of the
\* optimizer; with stepsize 0.1 the step x = 1.0, g = 2.0 returns 0.8 in every
\* state.
C12_BaseStateless ==
    opt.cls = "GradientDescent" =>
        /\ opt = Fresh
        /\ View(opt, heap) = View(Fresh, EmptyHeap)
        /\ call.op = "step" =>
            /\ call.point = call.xval
            /\ View(opt, heap) = call.pre
            /\ call.ok = Replay(Fresh).r.ok
            /\ Returned => Deref(heap, call.out) = ASub(call.xval, AMul(Scalar(opt.stepsize), UsedGrad))
        /\ opt.stepsize = <<1, 10>> =>
            \A grad_fn \in BOOLEAN :
                \E r \in {ExampleStep(grad_fn)} :
                    r.ok /\ r.o = opt /\ Deref(r.h, r.out) = Array(<<>>, <<<<4, 5>>>>)

\* the third step in a row of a GradientDescentOptimizer, with a nonzero gradient
C12_Witness ==
    /\ opt.cls = "GradientDescent" /\ Returned /\ n.returned = 3 /\ ~UnsetOrZero(call.oc.g)

\* ---- C13

\* the gradient computation of the latest step failed: the provider raised,
\* or Nesterov's look-ahead point could not be computed
GradFailed == call.oc.raises \/ IsFail(call.point)

\* C13: a step computes the gradient once, by the provider its grad_fn
\* argument selects, and writes state only after that computation and the
\* reshape have succeeded: a step whose gradient computation or reshape fails
\* ends there and writes no state field, for Nesterov as for the classes
\* that use the base compute_grad.
C13_GradBeforeState ==
    call.op = "step" =>
        /\ call.stage = "compute_grad" <=> GradFailed
        /\ IsFail(call.point) => opt.cls = "Nesterov" /\ call.via = "none"
        /\ call.stage \in {"compute_grad", "reshape"} =>
            View(opt, heap) = call.pre /\ call.out = None /\ ~call.ok
        /\ View(opt, heap) # call.pre => Entered
        /\ call.stage # "compute_grad" =>
            /\ call.g # None
            /\ call.via = (IF call.grad_fn THEN "grad_fn" ELSE "autograd")
        /\ (Entered /\ Len(call.xval.shape) > 1) => ~IsFail(reshape(call.oc.g, call.xval.shape))

\* a Nesterov step on an optimizer holding state whose provider raised at the
\* look-ahead point
C13_Witness ==
    /\ opt.cls = "Nesterov" /\ call.op = "step" /\ call.stage = "compute_grad"
    /\ ~IsFail(call.pre.accumulation) /\ call.oc.raises /\ call.via # "none"
    /\ call.point # call.xval

\* ---- C14

\* the point the class evaluates the gradient at, from the state before the step
EvaluationPoint ==
    IF opt.cls = "Nesterov" /\ ~IsFail(call.pre.accumulation)
    THEN ASub(call.xval, AMul(Scalar(opt.momentum), call.pre.accumulation))
    ELSE call.xval

\* the provider the grad_fn argument selects
Selected == IF call.grad_fn THEN "grad_fn" ELSE "autograd"

\* C14 as claimed: every step calls one provider once, grad_fn when it is
\* supplied and the differentiation engine on objective_fn otherwise, at x or
\* at Nesterov's look-ahead point.
C14_ProviderCalledOnce ==
    call.op = "step" => call.via = Selected /\ call.point = EvaluationPoint

\* C14 as amended: a step calls one provider once, grad_fn when it is
\* supplied and the differentiation engine on objective_fn otherwise, at x or
\* at Nesterov's look-ahead point, unless computing Nesterov's look-ahead
\* point raises: then the step ends in compute_grad and no provider is called.
C14_ProviderCalledOnceAtPoint ==
    call.op = "step" =>
        /\ call.point = EvaluationPoint
        /\ ~IsFail(EvaluationPoint) => call.via = Selected
        /\ IsFail(EvaluationPoint) =>
            /\ call.via = "none" /\ call.stage = "compute_grad" /\ call.g = None
            /\ opt.cls = "Nesterov"

\* a Nesterov step with a grad_fn, called at a look-ahead point that is not x
C14_Witness ==
    /\ opt.cls = "Nesterov" /\ Returned /\ call.grad_fn /\ call.via = "grad_fn"
    /\ call.point # call.xval

\* ---- C15

\* momentum^(n-1) * g_1 + ... + momentum * g_(n-1) + g_n for gs = <<g_1, ..., g_n>>
RECURSIVE WeightedSum(_, _)
WeightedSum(gs, momentum) ==
    IF Len(gs) = 1 THEN gs[1]
    ELSE AAdd(AMul(Scalar(RPow(momentum, Len(gs) - 1)), gs[1]), WeightedSum(Tail(gs), momentum))

\* every step that entered apply_grad since construction or the last reset returned
AllReturned == n.entered >= 1 /\ n.returned = n.entered

\* C15: after n >= 1 steps of a Momentum or Nesterov optimizer since
\* construction or the last reset, with gradients g_1..g_n, accumulation is
\* stepsize * (momentum^(n-1) * g_1 + ... + momentum * g_(n-1) + g_n), and the
\* n-th step returned x - accumulation for its x.
C15_MomentumClosedForm ==
    (opt.cls \in {"Momentum", "Nesterov"} /\ AllReturned) =>
        /\ Len(n.grads) = n.returned
        /\ View(opt, heap).accumulation = AMul(Scalar(opt.stepsize), WeightedSum(n.grads, opt.momentum))
        /\ Returned => Deref(heap, call.out) = ASub(call.xval, View(opt, heap).accumulation)

\* the third step in a row of a Momentum optimizer, the first gradient nonzero
C15_Witness ==
    /\ opt.cls = "Momentum" /\ Returned /\ n.returned = 3 /\ n.entered = 3
    /\ ~UnsetOrZero(n.grads[1]) /\ ~UnsetOrZero(n.grads[3])

\* ---- C16

\* a <= b in every component, with broadcasting
ALeq(a, b) ==
    LET p == Broadcast(a, b)
    IN p.shape # <<0>> /\ \A k \in DOMAIN p.l : RLeq(p.l[k], p.r[k])

\* g_1 * g_1 + ... + g_n * g_n for gs = <<g_1, ..., g_n>>
RECURSIVE SumOfSquares(_)
SumOfSquares(gs) ==
    IF Len(gs) = 1 THEN AMul(gs[1], gs[1])
    ELSE AAdd(AMul(gs[1], gs[1]), SumOfSquares(Tail(gs)))

\* the per-dimension learning rate stepsize / sqrt(accumulation + 1e-8)
LearningRate(accumulation) ==
    ADiv(Scalar(opt.stepsize), ASqrt(AAdd(accumulation, Scalar(Eps))))

\* C16: in an Adagrad optimizer every component of accumulation is
\* non-negative; a step never decreases a component, nor increases a
\* component of the learning rate stepsize / sqrt(accumulation + 1e-8); after
\* steps that all returned accumulation is the sum of the squares of the
\* gradients seen since construction or the last reset; reset unsets it.
C16_AdagradMonotone ==
    opt.cls = "Adagrad" =>
        /\ \A k \in DOMAIN View(opt, heap).accumulation.data :
            RLeq(Zero, View(opt, heap).accumulation.data[k])
        /\ (call.op = "step" /\ ~IsFail(call.pre.accumulation)) =>
            /\ ALeq(call.pre.accumulation, View(opt, heap).accumulation)
            /\ ALeq(LearningRate(View(opt, heap).accumulation), LearningRate(call.pre.accumulation))
        /\ AllReturned => View(opt, heap).accumulation = SumOfSquares(n.grads)
        /\ call.op = "reset" => opt.accumulation = None

\* an Adagrad step that raised a component of accumulation and lowered that
\* component of the learning rate
C16_Witness ==
    /\ opt.cls = "Adagrad" /\ Returned /\ n.returned >= 2 /\ ~IsFail(call.pre.accumulation)
    /\ ~ALeq(View(opt, heap).accumulation, call.pre.accumulation)
    /\ ~ALeq(LearningRate(call.pre.accumulation), LearningRate(View(opt, heap).accumulation))

\* ---- C17

\* every component of a is a finite number
AllFinite(a) == \A k \in DOMAIN a.data : IsFinite(a.data[k])

\* every component of a is positive
AllPositive(a) == \A k \in DOMAIN a.data : IsFinite(a.data[k]) /\ RLess(Zero, a.data[k])

\* values of beta1 over its range [0, 1)
Beta1Range == {Zero, <<1, 2>>, <<9, 10>>, <<99, 100>>}

\* C17: no step of Adagrad, RMSProp or Adam divides by zero, whatever the
\* gradients were: accumulation + 1e-8 and its square root are positive in
\* Adagrad and RMSProp, sqrt(secondmoment) + 1e-8 is positive in Adam, t >= 1
\* whenever Adam's apply_grad has been entered, so that 1 - beta1^t is not zero
\* (for every beta1 of the range), and what a returned step returns is finite.
C17_NoDivisionByZero ==
    /\ (opt.cls \in {"Adagrad", "RMSProp"} /\ opt.accumulation # None) =>
        /\ AllPositive(AAdd(View(opt, heap).accumulation, Scalar(Eps)))
        /\ AllPositive(ASqrt(AAdd(View(opt, heap).accumulation, Scalar(Eps))))
    /\ (opt.cls = "Adam" /\ opt.secondmoment # None) =>
        AllPositive(AAdd(ASqrt(View(opt, heap).secondmoment), Scalar(Eps)))
    /\ (opt.cls = "Adam" /\ Entered) =>
        /\ opt.t >= 1
        /\ RSub(One, RPow(opt.beta1, opt.t)) # Zero
        /\ \A b \in Beta1Range : RLess(Zero, RSub(One, RPow(b, opt.t)))
    /\ (opt.cls = "Adam" /\ Returned) => IsFinite(call.adapted)
    /\ (opt.cls \in {"Adagrad", "RMSProp", "Adam"} /\ Returned) => AllFinite(Deref(heap, call.out))

\* the second step of an Adam optimizer that has seen only zero gradients:
\* the divisor is 1e-8
C17_Witness ==
    /\ opt.cls = "Adam" /\ Returned /\ n.returned >= 2
    /\ UnsetOrZero(View(opt, heap).secondmoment)
    /\ \A k \in DOMAIN n.grads : UnsetOrZero(n.grads[k])

\* ---- C18

\* the larger of a and b in every component, with broadcasting
AMax(a, b) ==
    LET p == Broadcast(a, b)
    IN IF p.shape = <<0>> THEN Fail
       ELSE [shape |-> p.shape,
             data |-> [k \in DOMAIN p.l |-> IF RLess(p.l[k], p.r[k]) THEN p.r[k] ELSE p.l[k]]]

\* per component, the largest square over gs = <<g_1, ..., g_n>>
RECURSIVE MaxSquares(_)
MaxSquares(gs) ==
    IF Len(gs) = 1 THEN AMul(gs[1], gs[1])
    ELSE AMax(AMul(gs[1], gs[1]), MaxSquares(Tail(gs)))

\* the components of accumulation whose gradient component was zero in the
\* latest step and that were positive before it are smaller after it
ZeroGradDecays ==
    LET p == Broadcast(call.pre.accumulation, View(opt, heap).accumulation)
        q == Broadcast(UsedGrad, View(opt, heap).accumulation)
    IN (p.shape # <<0>> /\ q.shape = p.shape) =>
        \A k \in DOMAIN p.l :
            (q.l[k] = Zero /\ RLess(Zero, p.l[k])) => RLess(p.r[k], p.l[k])

\* C18: in an RMSProp optimizer that holds state every component of
\* accumulation is at least 0 and at most the largest square that component
\* has taken over the gradients seen since construction or the last reset,
\* and a step whose gradient component is zero makes a positive component of
\* accumulation smaller.
C18_RMSPropBounded ==
    (opt.cls = "RMSProp" /\ opt.accumulation # None) =>
        /\ n.entered >= 1
        /\ \A k \in DOMAIN View(opt, heap).accumulation.data :
            RLeq(Zero, View(opt, heap).accumulation.data[k])
        /\ ~IsFail(MaxSquares(n.grads)) => ALeq(View(opt, heap).accumulation, MaxSquares(n.grads))
        /\ Entered => ZeroGradDecays

\* an RMSProp step with a zero gradient that left a smaller, still positive
\* accumulation
C18_Witness ==
    /\ opt.cls = "RMSProp" /\ ZeroGradStep /\ n.returned >= 2
    /\ ~UnsetOrZero(call.pre.accumulation) /\ ~UnsetOrZero(View(opt, heap).accumulation)
    /\ ~ALeq(call.pre.accumulation, View(opt, heap).accumulation)
    /\ ~IsFail(MaxSquares(n.grads))

====
